---- MODULE Spec2Model ----
(***************************************************************************)
(* VibeLoader: the URL resolver (extractVideoId), the format aggregators   *)
(* (the dedup/sort blocks of the handleFetch variants and of getVideoInfo) *)
(* and the instance-fallback fetch loops, modelled from the sources.       *)
(*                                                                         *)
(* The repository holds several near-duplicate variants of each piece.     *)
(* They are named here after the file that holds them:                     *)
(*   part_000, part_001   src/unnamed/part_000, src/unnamed/part_001       *)
(*   App1, App2           first and second App() of src/src/App.jsx        *)
(*   getVideoInfo         the Invidious handler of functions/api/info.js   *)
(***************************************************************************)
EXTENDS Integers, Sequences, FiniteSets, TLC

VARIABLES
    \* ---- format aggregator (one catalog build) ----
    variant,       \* which catalog builder runs
    rawFormats,    \* the raw upstream entries of the response
    catalog,       \* uniqueQualities / uniqueFormats once built
    cpc,           \* "input" before the build, "built" after it
    \* ---- instance-fallback fetch (one call of one handler) ----
    fvariant,      \* which handler / fetch function runs
    request,       \* what the caller sent: "ok", "noVideoId", "invalidBody"
    quality,       \* the q parameter of the Invidious+Cobalt handler
    instanceIdx,   \* position of the loop in the endpoint list (1-based)
    fpc,           \* "entry", "loop", "awaitFetch", "awaitBody", "done"
    net,           \* the pending network call: "idle", "pending", "silent",
                   \* "body", "stalled"
    inFlight,      \* positions of the endpoints with a call in flight
    timers,        \* positions of the endpoints whose timeout timer is armed
    attempts,      \* the endpoints fetch() was called on, in order
    outcomes,      \* how each ended attempt ended, in order
    lastError,     \* the handler's lastError variable
    cobaltResult,  \* what getCobaltDownload returned
    result,        \* the handler's response / the function's return value
    \* ---- URL resolver (one call of extractVideoId) ----
    rvariant,      \* which copy of extractVideoId runs
    input,         \* the string passed to it, as a sequence of characters
    videoId,       \* what it returned
    rpc,           \* "call" before the call, "done" after it
    \* ---- the page (React state of App and its handleFetch calls) ----
    cvariant,            \* which App runs
    url,                 \* useState(''): the text of the input box
    loading,             \* useState(false)
    videoInfo,           \* useState(null): <<>> or <<[id |-> ..]>>
    availableQualities,  \* useState([]) (qualities in the first App)
    selectedQuality,     \* useState(null): <<>> or <<descriptor>>
    error,               \* useState('')
    pendingCalls,        \* the video ids of the handleFetch calls awaiting
                         \* their response
    data,                \* const data of the handleFetch call that ran last:
                         \* nothing until its response is there
    downloading,         \* useState(false) (not in the first App)
    opened,              \* the URLs the handleDownload call that ran last
                         \* has opened (window.open, link.click)
    pendingDownloads,    \* part_000: the handleDownload calls awaiting
                         \* /api/download
    downloadTimers,      \* armed setTimeout(() => setDownloading(false))
    \* ---- two calls of one handler running concurrently ----
    hvariant,      \* which handler / fetch function the calls run
    calls,         \* per call: its position, the outcomes of its own
                   \* attempts in order, and what it returned
    locals         \* per activation: videoId, the loop position and lastError

catalogVars == <<variant, rawFormats, catalog, cpc>>

fetchVars == <<fvariant, request, quality, instanceIdx, fpc, net, inFlight, timers,
               attempts, outcomes, lastError, cobaltResult, result>>

resolverVars == <<rvariant, input, videoId, rpc>>

downloadVars == <<downloading, opened, pendingDownloads, downloadTimers>>

callVars == <<hvariant, calls, locals>>

clientVars == <<cvariant, url, loading, videoInfo, availableQualities,
                selectedQuality, error, pendingCalls, data,
                downloading, opened, pendingDownloads, downloadTimers>>

vars == <<variant, rawFormats, catalog, cpc,
          fvariant, request, quality, instanceIdx, fpc, net, inFlight, timers,
          attempts, outcomes, lastError, cobaltResult, result,
          rvariant, input, videoId, rpc,
          cvariant, url, loading, videoInfo, availableQualities,
          selectedQuality, error, pendingCalls, data,
          downloading, opened, pendingDownloads, downloadTimers,
          hvariant, calls, locals>>

-----------------------------------------------------------------------------
(***************************************************************************)
(* Raw upstream values.                                                    *)
(*                                                                         *)
(* A resolution-bearing JSON field is an integer, a label string "<n>p",   *)
(* a string without leading digits ("medium", "hd720"), or absent.         *)
(***************************************************************************)
IntVal(n) == [k |-> "int", n |-> n]
Label(n) == [k |-> "label", n |-> n]
Unparseable == [k |-> "text", n |-> 0]
Absent == [k |-> "absent", n |-> 0]

\* JavaScript parseInt.  NaN is represented by 0: at every call site the
\* result is an operand of "||", where NaN and 0 are both falsy.
parseInt(v) == IF v.k \in {"int", "label"} THEN v.n ELSE 0

\* JavaScript "a || b" on numbers.
OrElse(a, b) == IF a # 0 THEN a ELSE b

\* JavaScript "v > 0" on a raw JSON value: a label string converts to NaN.
GreaterThanZero(v) == v.k = "int" /\ v.n > 0

\* Array.prototype.findIndex / find: the first of the indices whose element
\* satisfies the test, 0 when there is none.
FindIndex(matching) ==
    IF matching = {} THEN 0
    ELSE CHOOSE k \in matching : \A j \in matching : k <= j

\* Array.prototype.splice(idx, 1) with a 1-based index.
Splice1(s, idx) == [k \in 1..(Len(s) - 1) |-> IF k < idx THEN s[k] ELSE s[k + 1]]

\* Array.prototype.sort((a, b) => b.resolution - a.resolution): stable,
\* descending by resolution.
RECURSIVE InsertDesc(_, _)
InsertDesc(q, s) ==
    IF s = <<>> THEN <<q>>
    ELSE IF Head(s).resolution >= q.resolution
         THEN <<Head(s)>> \o InsertDesc(q, Tail(s))
         ELSE <<q>> \o s

RECURSIVE SortDescFrom(_, _)
SortDescFrom(s, acc) ==
    IF s = <<>> THEN acc ELSE SortDescFrom(Tail(s), InsertDesc(Head(s), acc))

\* the sort call left out
SortByResolutionDesc_Omitted(s) == s

SortByResolutionDesc(s) == SortDescFrom(s, <<>>)

-----------------------------------------------------------------------------
(***************************************************************************)
(* Raw entries and descriptors.                                            *)
(*                                                                         *)
(* A raw entry is a record                                                 *)
(*   quality      Piped "quality"; Invidious "quality" (the fallback field)*)
(*   qualityLabel Invidious "qualityLabel"                                 *)
(*   resolution   the "resolution" field read by App1                      *)
(*   audio        TRUE for an entry with an audio track: a Piped stream    *)
(*                whose videoOnly is falsy, or a member of formatStreams;  *)
(*                FALSE for a videoOnly stream / a member of               *)
(*                adaptiveFormats                                          *)
(*   url          TRUE when the entry has a media URL                      *)
(*   video        TRUE when mimeType / type names a video type             *)
(* rawFormats keeps the entries of both upstream lists in one sequence;    *)
(* the relative order within each list is the order in the sequence.       *)
(*                                                                         *)
(* A descriptor is [resolution, hasAudio, src]: src is the position of the *)
(* raw entry it was made from.  For the Piped variants hasAudio is         *)
(* the negation of the descriptor's videoOnly field.                       *)
(***************************************************************************)

\* ---- src/unnamed/part_001, handleFetch lines 82-136 ----

\* lines 85-110: filter by videoOnly, map, keep resolution > 0
Part001Streams(raw, wantAudio) ==
    LET mapped == [i \in 1..Len(raw) |->
                     [resolution |-> OrElse(parseInt(raw[i].quality), 0),
                      hasAudio |-> raw[i].audio,
                      size |-> raw[i].size,
                      fps |-> raw[i].fps,
                      src |-> i]]
    IN  SelectSeq(mapped, LAMBDA q : q.hasAudio = wantAudio /\ q.resolution > 0)

\* line 122: the condition under which the loop body runs for q
Part001Enters(q, seenResolutions) ==
    \/ q.resolution \notin seenResolutions
    \/ (q.resolution \in seenResolutions /\ q.hasAudio)

\* lines 120-133: the dedup loop
RECURSIVE Part001Dedup(_, _, _)
Part001Dedup(all, uniqueQualities, seenResolutions) ==
    IF all = <<>> THEN uniqueQualities
    ELSE LET q == Head(all)
             existingIdx == FindIndex({k \in 1..Len(uniqueQualities) :
                                 /\ uniqueQualities[k].resolution = q.resolution
                                 /\ ~uniqueQualities[k].hasAudio /\ q.hasAudio})
             spliced == IF existingIdx >= 1 THEN Splice1(uniqueQualities, existingIdx)
                        ELSE uniqueQualities
             found == FindIndex({k \in 1..Len(spliced) :
                                  spliced[k].resolution = q.resolution}) >= 1
         IN  IF ~Part001Enters(q, seenResolutions)
             THEN Part001Dedup(Tail(all), uniqueQualities, seenResolutions)
             ELSE IF found
                  THEN Part001Dedup(Tail(all), spliced, seenResolutions)
                  ELSE Part001Dedup(Tail(all), Append(spliced, q),
                                    seenResolutions \cup {q.resolution})

\* lines 112-136
BuildCatalogPart001(raw) ==
    LET allQualities == Part001Streams(raw, TRUE) \o Part001Streams(raw, FALSE)
        sorted == SortByResolutionDesc(allQualities)
    IN  SortByResolutionDesc(Part001Dedup(sorted, <<>>, {}))

\* ---- src/src/App.jsx, second App(), handleFetch lines 461-516 ----

\* lines 464-480 and 494-508: filter, map, keep resolution > 0, sort
App2Streams(raw, wantAudio) ==
    LET mapped == [i \in 1..Len(raw) |->
                     [resolution |-> OrElse(parseInt(raw[i].quality), 0),
                      hasAudio |-> raw[i].audio,
                      video |-> raw[i].video,
                      size |-> raw[i].size,
                      fps |-> raw[i].fps,
                      src |-> i]]
        kept == SelectSeq(mapped, LAMBDA q : q.hasAudio = wantAudio /\ q.video
                                             /\ q.resolution > 0)
    IN  SortByResolutionDesc([k \in 1..Len(kept) |->
                                [resolution |-> kept[k].resolution,
                                 hasAudio |-> kept[k].hasAudio,
                                 size |-> kept[k].size,
                                 fps |-> kept[k].fps,
                                 src |-> kept[k].src]])

\* lines 485-490 and 510-515: keep the first descriptor of each resolution
RECURSIVE App2Dedup(_, _, _)
App2Dedup(qs, uniqueQualities, seenResolutions) ==
    IF qs = <<>> THEN [unique |-> uniqueQualities, seen |-> seenResolutions]
    ELSE IF Head(qs).resolution \notin seenResolutions
         THEN App2Dedup(Tail(qs), Append(uniqueQualities, Head(qs)),
                        seenResolutions \cup {Head(qs).resolution})
         ELSE App2Dedup(Tail(qs), uniqueQualities, seenResolutions)

\* lines 482-516: video-only streams are used only when no combined stream
\* survives
BuildCatalogApp2(raw) ==
    LET first == App2Dedup(App2Streams(raw, TRUE), <<>>, {})
    IN  IF Len(first.unique) = 0
        THEN App2Dedup(App2Streams(raw, FALSE), first.unique, first.seen).unique
        ELSE first.unique

\* ---- src/src/App.jsx, first App(), handleFetch lines 84-140 ----

\* lines 88-98: formatStreams, each pushed with hasAudio true
App1FormatStreams(raw) ==
    LET mapped == [i \in 1..Len(raw) |->
                     [resolution |-> raw[i].resolution.n,
                      hasAudio |-> TRUE,
                      keep |-> raw[i].audio /\ GreaterThanZero(raw[i].resolution),
                      size |-> raw[i].size,
                      fps |-> raw[i].fps,
                      src |-> i]]
        kept == SelectSeq(mapped, LAMBDA q : q.keep)
    IN  [k \in 1..Len(kept) |->
           [resolution |-> kept[k].resolution, hasAudio |-> TRUE,
            size |-> kept[k].size, fps |-> kept[k].fps, src |-> kept[k].src]]

\* lines 101-117: adaptiveFormats, pushed with hasAudio false unless the
\* resolution is already present with audio
RECURSIVE App1AddAdaptive(_, _, _)
App1AddAdaptive(raw, i, allQualities) ==
    IF i > Len(raw) THEN allQualities
    ELSE LET stream == raw[i]
             existingWithAudio ==
                 FindIndex({k \in 1..Len(allQualities) :
                              /\ allQualities[k].resolution = stream.resolution.n
                              /\ allQualities[k].hasAudio}) >= 1
         IN  IF ~stream.audio /\ GreaterThanZero(stream.resolution) /\ ~existingWithAudio
             THEN App1AddAdaptive(raw, i + 1,
                                  Append(allQualities,
                                         [resolution |-> stream.resolution.n,
                                          hasAudio |-> FALSE,
                                          size |-> stream.size,
                                          fps |-> stream.fps, src |-> i]))
             ELSE App1AddAdaptive(raw, i + 1, allQualities)

App1AllQualities(raw) == App1AddAdaptive(raw, 1, App1FormatStreams(raw))

\* lines 120-123: the comparator.  For two entries of equal resolution it
\* returns a.hasAudio ? -1 : 1 whatever b is, so it is not a consistent
\* ordering when both have audio or both have none; the order sort() then
\* leaves them in is implementation-defined.  App1Before(a, b) is TRUE when
\* the comparator puts a before b whichever way round it is called.
App1Before(a, b) ==
    \/ a.resolution > b.resolution
    \/ (a.resolution = b.resolution /\ a.hasAudio /\ ~b.hasAudio)

\* TRUE when the comparator puts b before a whichever way round it is called
App1MustFollow(a, b) == App1Before(b, a)

\* every order sort() can leave allQualities in
App1SortOutcomes(all) ==
    LET n == Len(all)
        perms == {p \in [1..n -> 1..n] : \A i, j \in 1..n : i # j => p[i] # p[j]}
    IN  {[k \in 1..n |-> all[p[k]]] : p \in
            {p \in perms : \A i, j \in 1..n :
                              i < j => ~App1MustFollow(all[p[i]], all[p[j]])}}

\* line 130: the condition under which the loop body runs for q
App1Enters(q, uniqueQualities, seen) ==
    \/ q.resolution \notin seen
    \/ (q.hasAudio
        /\ FindIndex({k \in 1..Len(uniqueQualities) :
                         /\ uniqueQualities[k].resolution = q.resolution
                         /\ uniqueQualities[k].hasAudio}) = 0)

\* lines 126-140: the dedup loop
RECURSIVE App1Dedup(_, _, _)
App1Dedup(all, uniqueQualities, seen) ==
    IF all = <<>> THEN uniqueQualities
    ELSE LET q == Head(all)
             idx == FindIndex({k \in 1..Len(uniqueQualities) :
                                 /\ uniqueQualities[k].resolution = q.resolution
                                 /\ ~uniqueQualities[k].hasAudio /\ q.hasAudio})
             spliced == IF idx >= 1 THEN Splice1(uniqueQualities, idx)
                        ELSE uniqueQualities
             found == FindIndex({k \in 1..Len(spliced) :
                                  spliced[k].resolution = q.resolution}) >= 1
         IN  IF ~App1Enters(q, uniqueQualities, seen)
             THEN App1Dedup(Tail(all), uniqueQualities, seen)
             ELSE IF found
                  THEN App1Dedup(Tail(all), spliced, seen)
                  ELSE App1Dedup(Tail(all), Append(spliced, q), seen \cup {q.resolution})

\* lines 84-140: the catalogs the block can produce, one per sort outcome
BuildCatalogApp1(raw) ==
    {App1Dedup(sorted, <<>>, {}) : sorted \in App1SortOutcomes(App1AllQualities(raw))}

\* ---- src/functions/api/info.js, getVideoInfo lines 169-219 ----

\* lines 181 and 198: s.size || null, s.clen || s.contentLength || null
OrNull(x) == IF x.k = "int" /\ x.n # 0 THEN x ELSE Absent

\* lines 173 and 190
InvidiousResolution(s) ==
    OrElse(OrElse(parseInt(s.qualityLabel), parseInt(s.quality)), 0)

\* lines 172-204: formatStreams first, then the adaptive formats whose
\* type starts with "video/"; hasAudio of an adaptive format is
\* !type.includes("video/")
GetVideoInfoFormats(raw) ==
    LET mapped == [i \in 1..Len(raw) |->
                     [resolution |-> InvidiousResolution(raw[i]),
                      hasAudio |-> IF raw[i].audio THEN TRUE ELSE ~raw[i].video,
                      keep |-> /\ (raw[i].audio \/ raw[i].video)
                               /\ InvidiousResolution(raw[i]) > 0
                               /\ raw[i].url,
                      list |-> IF raw[i].audio THEN "formatStreams" ELSE "adaptiveFormats",
                      size |-> OrNull(raw[i].size),
                      fps |-> raw[i].fps,
                      src |-> i]]
        Strip(q) == [resolution |-> q.resolution, hasAudio |-> q.hasAudio,
                     size |-> q.size, fps |-> q.fps, src |-> q.src]
        fs == SelectSeq(mapped, LAMBDA q : q.list = "formatStreams" /\ q.keep)
        af == SelectSeq(mapped, LAMBDA q : q.list = "adaptiveFormats" /\ q.keep)
    IN  [k \in 1..Len(fs) |-> Strip(fs[k])] \o [k \in 1..Len(af) |-> Strip(af[k])]

\* line 214 with the preference the wrong way round
GetVideoInfoTakesSlot_PrefersVideoOnly(f, hasExisting, existing) ==
    ~hasExisting \/ (~f.hasAudio /\ existing.hasAudio)

\* line 214 with the larger file taking the slot
GetVideoInfoTakesSlot_PrefersLarger(f, hasExisting, existing) ==
    ~hasExisting \/ (f.hasAudio /\ ~existing.hasAudio) \/ f.size.n > existing.size.n

\* line 214: whether f takes the slot of its resolution in the Map
GetVideoInfoTakesSlot(f, hasExisting, existing) ==
    ~hasExisting \/ (f.hasAudio /\ ~existing.hasAudio)

\* lines 210-217: seen is the Map in insertion order, as a sequence of
\* values; Map.set on a present key keeps the key's position
RECURSIVE GetVideoInfoDedup(_, _)
GetVideoInfoDedup(formats, seen) ==
    IF formats = <<>> THEN seen
    ELSE LET f == Head(formats)
             at == FindIndex({k \in 1..Len(seen) : seen[k].resolution = f.resolution})
         IN  IF at = 0
             THEN IF GetVideoInfoTakesSlot(f, FALSE, f)
                  THEN GetVideoInfoDedup(Tail(formats), Append(seen, f))
                  ELSE GetVideoInfoDedup(Tail(formats), seen)
             ELSE IF GetVideoInfoTakesSlot(f, TRUE, seen[at])
                  THEN GetVideoInfoDedup(Tail(formats), [seen EXCEPT ![at] = f])
                  ELSE GetVideoInfoDedup(Tail(formats), seen)

\* lines 206-219
BuildCatalogGetVideoInfo(raw) ==
    LET formats == SortByResolutionDesc(GetVideoInfoFormats(raw))
        uniqueFormats == GetVideoInfoDedup(formats, <<>>)
    IN  SortByResolutionDesc(uniqueFormats)

-----------------------------------------------------------------------------
(***************************************************************************)
(* The format aggregator as a state machine: a response arrives with its   *)
(* raw entries (CatalogInit), and the variant's dedup/sort block builds    *)
(* the catalog from them.                                                  *)
(***************************************************************************)

\* longest raw list, and longest raw list given to getVideoInfo (whose
\* entries have more fields that matter)
MaxRaw == 3
MaxRawInvidious == 2

CatalogVariants == {"part_001", "App1", "App2", "getVideoInfo"}

ResValues == {IntVal(1080), IntVal(720), Label(1080), IntVal(0), Unparseable}

\* (qualityLabel, quality) of an Invidious entry; quality is read only
\* when qualityLabel does not parse to a non-zero number
InvidiousResValues ==
    {<<v, Unparseable>> : v \in ResValues}
        \cup {<<IntVal(0), Label(720)>>, <<Unparseable, Label(720)>>}

\* the raw entries given to a variant: the fields the variant reads range
\* over their values, the fields it never reads are fixed
RawEntries(v) ==
    CASE v = "part_001" ->
           {[quality |-> r, qualityLabel |-> Absent, resolution |-> Absent,
             audio |-> a, url |-> TRUE, video |-> TRUE,
             size |-> Absent, fps |-> Absent] :
               r \in ResValues, a \in BOOLEAN}
      [] v = "App2" ->
           {[quality |-> r, qualityLabel |-> Absent, resolution |-> Absent,
             audio |-> a, url |-> TRUE, video |-> m,
             size |-> Absent, fps |-> Absent] :
               r \in ResValues, a \in BOOLEAN, m \in BOOLEAN}
      [] v = "App1" ->
           {[quality |-> Absent, qualityLabel |-> Absent, resolution |-> r,
             audio |-> a, url |-> TRUE, video |-> TRUE,
             size |-> Absent, fps |-> Absent] :
               r \in ResValues, a \in BOOLEAN}
      [] v = "getVideoInfo" ->
           {[quality |-> r[2], qualityLabel |-> r[1], resolution |-> Absent,
             audio |-> f[1], url |-> f[2], video |-> f[3],
             size |-> Absent, fps |-> Absent] :
               r \in InvidiousResValues,
               f \in {<<TRUE, TRUE, TRUE>>, <<TRUE, FALSE, TRUE>>,
                      <<FALSE, TRUE, TRUE>>, <<FALSE, FALSE, TRUE>>,
                      <<FALSE, TRUE, FALSE>>}}

SeqsUpTo(S, n) == UNION {[1..k -> S] : k \in 0..n}

\* the scenario of spec section 8 as an Invidious response:
\* [{1080, audio}, {1080, video only}, {720, audio}]
ScenarioInvidious ==
    LET E(r, a) == [quality |-> Unparseable, qualityLabel |-> r, resolution |-> Absent,
                    audio |-> a, url |-> TRUE, video |-> TRUE,
                    size |-> Absent, fps |-> Absent]
    IN  <<E(Label(1080), TRUE), E(Label(1080), FALSE), E(IntVal(720), TRUE)>>

RawLists(v) ==
    IF v = "getVideoInfo"
    THEN SeqsUpTo(RawEntries(v), MaxRawInvidious) \cup {ScenarioInvidious}
    ELSE SeqsUpTo(RawEntries(v), MaxRaw)

CatalogIdle ==
    /\ variant = "none"
    /\ rawFormats = <<>>
    /\ catalog = <<>>
    /\ cpc = "idle"

NoError == [endpoint |-> "none", kind |-> "none"]

NoResult == [status |-> 0, kind |-> "none", from |-> "none", details |-> NoError,
             formats |-> <<>>]

FetchIdle ==
    /\ fvariant = "none"
    /\ request = "none"
    /\ quality = Absent
    /\ instanceIdx = 0
    /\ fpc = "idle"
    /\ net = "idle"
    /\ inFlight = {}
    /\ timers = {}
    /\ attempts = <<>>
    /\ outcomes = <<>>
    /\ lastError = NoError
    /\ cobaltResult = "none"
    /\ result = NoResult

\* null, undefined and the absence of a match
Null == <<>>

ResolverIdle ==
    /\ rvariant = "none"
    /\ input = <<>>
    /\ videoId = Null
    /\ rpc = "idle"

NoData == [kind |-> "none", streams |-> <<>>]

ClientIdle ==
    /\ cvariant = "none"
    /\ url = <<>>
    /\ loading = FALSE
    /\ videoInfo = Null
    /\ availableQualities = <<>>
    /\ selectedQuality = Null
    /\ error = ""
    /\ pendingCalls = <<>>
    /\ data = NoData
    /\ downloading = FALSE
    /\ opened = <<>>
    /\ pendingDownloads = <<>>
    /\ downloadTimers = 0

CallsIdle ==
    /\ hvariant = "none"
    /\ calls = <<>>
    /\ locals = <<>>

CatalogInit ==
    /\ variant \in CatalogVariants
    /\ rawFormats \in RawLists(variant)
    /\ catalog = <<>>
    /\ cpc = "input"
    /\ FetchIdle
    /\ ResolverIdle
    /\ ClientIdle
    /\ CallsIdle

BuildPart001 ==
    /\ cpc = "input" /\ variant = "part_001"
    /\ catalog' = BuildCatalogPart001(rawFormats)
    /\ cpc' = "built"
    /\ UNCHANGED <<variant, rawFormats>>
    /\ UNCHANGED <<fetchVars, resolverVars, clientVars, callVars>>

BuildApp1 ==
    /\ cpc = "input" /\ variant = "App1"
    /\ catalog' \in BuildCatalogApp1(rawFormats)
    /\ cpc' = "built"
    /\ UNCHANGED <<variant, rawFormats>>
    /\ UNCHANGED <<fetchVars, resolverVars, clientVars, callVars>>

BuildApp2 ==
    /\ cpc = "input" /\ variant = "App2"
    /\ catalog' = BuildCatalogApp2(rawFormats)
    /\ cpc' = "built"
    /\ UNCHANGED <<variant, rawFormats>>
    /\ UNCHANGED <<fetchVars, resolverVars, clientVars, callVars>>

BuildGetVideoInfo ==
    /\ cpc = "input" /\ variant = "getVideoInfo"
    /\ catalog' = BuildCatalogGetVideoInfo(rawFormats)
    /\ cpc' = "built"
    /\ UNCHANGED <<variant, rawFormats>>
    /\ UNCHANGED <<fetchVars, resolverVars, clientVars, callVars>>

CatalogNext == BuildPart001 \/ BuildApp1 \/ BuildApp2 \/ BuildGetVideoInfo

SpecCatalog == CatalogInit /\ [][CatalogNext]_vars

-----------------------------------------------------------------------------
(***************************************************************************)
(* Claims about the format aggregator (checked under SpecCatalog).         *)
(***************************************************************************)

\* the resolution a variant reads from a raw entry (0: none)
RawResolution(v, e) ==
    CASE v \in {"part_001", "App2"} -> OrElse(parseInt(e.quality), 0)
      [] v = "App1" -> IF GreaterThanZero(e.resolution) THEN e.resolution.n ELSE 0
      [] v = "getVideoInfo" -> InvidiousResolution(e)
      [] OTHER -> 0

\* the entry passes the variant's filter
Accepted(v, e) ==
    /\ RawResolution(v, e) > 0
    /\ v = "App2" => e.video
    /\ v = "getVideoInfo" => (e.url /\ (e.audio \/ e.video))

Resolutions == {1080, 720}

SlotsAt(r) == {k \in 1..Len(catalog) : catalog[k].resolution = r}

\* the one descriptor retained for r comes from an audio-bearing entry
AudioRetainedAt(r) ==
    /\ Cardinality(SlotsAt(r)) = 1
    /\ \A k \in SlotsAt(r) : catalog[k].hasAudio /\ rawFormats[catalog[k].src].audio

C2_StrictlyDescending ==
    cpc = "built" =>
        \A k \in 1..(Len(catalog) - 1) :
            catalog[k].resolution > catalog[k + 1].resolution

\* a catalog of two resolutions built from a list that gave the lower
\* resolution first and repeated a resolution
C2_Witness ==
    /\ cpc = "built"
    /\ Len(catalog) = 2
    /\ Len(rawFormats) = 3
    /\ \A i \in 1..3 : Accepted(variant, rawFormats[i])
    /\ RawResolution(variant, rawFormats[1]) = 720
    /\ RawResolution(variant, rawFormats[2]) = 1080
    /\ RawResolution(variant, rawFormats[3]) = 720
    /\ rawFormats[1].audio = rawFormats[2].audio

-----------------------------------------------------------------------------
(***************************************************************************)
(* The instance-fallback fetch loops.                                      *)
(*                                                                         *)
(*   piped           functions/api/info.js  onRequestGet, lines 11-76      *)
(*   part_002        unnamed/part_002       onRequestGet, lines 8-45       *)
(*   fetchVideoInfo  src/App.jsx            fetchVideoInfo, lines 402-433  *)
(*   invidious       functions/api/info.js  onRequestGet, lines 263-323,   *)
(*                   with getVideoInfo, getCobaltDownload, fetchWithTimeout*)
(*   cobaltPost      functions/api/info.js  onRequestPost, lines 341-430   *)
(*                                                                         *)
(* A handler suspends only at its awaits: at "await fetch(..)" (fpc =      *)
(* "awaitFetch") and at "await response.json()" (fpc = "awaitBody").       *)
(* Between two awaits it runs as one step.  Time is not measured: an armed *)
(* timer may fire at any moment.  The network answers a pending call with  *)
(* a success status, with another status or with a network error, or it   *)
(* never answers (net = "silent"); a body arrives usable or not, or never  *)
(* finishes arriving (net = "stalled").                                    *)
(***************************************************************************)

\* functions/api/info.js lines 2-9
PIPED_INSTANCES ==
    <<"https://pipedapi.kavin.rocks", "https://pipedapi.adminforge.de",
      "https://pipedapi.in.projectsegfau.lt", "https://api.piped.yt",
      "https://pipedapi.moomoo.me", "https://pipedapi.syncpundit.io">>

\* unnamed/part_002 lines 2-6
PIPED_INSTANCES_part_002 ==
    <<"https://pipedapi.kavin.rocks", "https://pipedapi.adminforge.de",
      "https://pipedapi.in.projectsegfau.lt">>

\* src/App.jsx lines 350-355
PIPED_INSTANCES_App ==
    <<"https://pipedapi.kavin.rocks", "https://pipedapi.adminforge.de",
      "https://pipedapi.in.projectsegfau.lt", "https://api.piped.yt">>

\* functions/api/info.js lines 126-133
INVIDIOUS_INSTANCES ==
    <<"https://invidious.nerdvpn.de", "https://invidious.private.coffee",
      "https://invidious.protokolla.fi", "https://yt.artemislena.eu",
      "https://invidious.perennialte.ch", "https://vid.puffyan.us">>

\* functions/api/info.js lines 336-339
COBALT_INSTANCES == <<"https://api.cobalt.tools", "https://cobalt-api.hyper.lol">>

\* functions/api/info.js line 92 (YTDLP_APIS[0].url) and line 294
YTDLP_COBALT_URL == "https://api.cobalt.tools/api/json"
OEMBED_URL == "https://www.youtube.com/oembed"

\* src/App.jsx line 405
LOCAL_API == "/api/info"

FetchVariants == {"piped", "part_002", "fetchVideoInfo", "invidious", "cobaltPost"}

\* the list a variant's fallback loop walks through
FallbackList(v) ==
    CASE v = "piped" -> PIPED_INSTANCES
      [] v = "part_002" -> PIPED_INSTANCES_part_002
      [] v = "fetchVideoInfo" -> <<LOCAL_API>> \o PIPED_INSTANCES_App
      [] v = "invidious" -> INVIDIOUS_INSTANCES
      [] v = "cobaltPost" -> COBALT_INSTANCES
      [] OTHER -> <<>>

\* the Invidious handler asking Cobalt before the Invidious instances
Endpoints_CobaltFirst(v) ==
    IF v = "invidious"
    THEN <<YTDLP_COBALT_URL>> \o INVIDIOUS_INSTANCES \o <<OEMBED_URL>>
    ELSE FallbackList(v)

\* every URL a variant may call, in the order of the calls: the Invidious
\* handler goes on to Cobalt after its loop and to oEmbed after Cobalt
Endpoints(v) ==
    IF v = "invidious"
    THEN INVIDIOUS_INSTANCES \o <<YTDLP_COBALT_URL, OEMBED_URL>>
    ELSE FallbackList(v)

CobaltIdx == Len(INVIDIOUS_INSTANCES) + 1
OEmbedIdx == Len(INVIDIOUS_INSTANCES) + 2

\* setTimeout(() => controller.abort(), ..) before the call: not in
\* part_002, and not around the local call of fetchVideoInfo
UsesTimer(v, i) == v # "part_002" /\ ~(v = "fetchVideoInfo" /\ i = 1)

\* clearTimeout in the catch branch: only fetchWithTimeout has it
ClearsTimerOnReject(v) == v = "invidious"

\* lastError is assigned in the loop
RecordsLastError(v) == v \in {"piped", "cobaltPost"}

FailureKinds == {"timeout", "network", "http", "body"}

Response(status, kind, from, details, formats) ==
    [status |-> status, kind |-> kind, from |-> from, details |-> details,
     formats |-> formats]

\* what each variant returns once its loop is exhausted
ExhaustedResult(v, err) ==
    CASE v = "piped" -> Response(502, "exhausted", "none", err, <<>>)
      [] v = "part_002" -> Response(500, "exhausted", "none", NoError, <<>>)
      [] v = "fetchVideoInfo" -> Response(0, "exhausted", "none", NoError, <<>>)
      [] v = "invidious" -> Response(502, "exhausted", "none", NoError, <<>>)
      [] v = "cobaltPost" -> Response(200, "exhausted", "none", err, <<>>)

\* the bodies an Invidious instance may answer with
InvidiousBodies ==
    {<<>>, ScenarioInvidious}
        \cup {<<e>> : e \in {x \in RawEntries("getVideoInfo") :
                                x.qualityLabel \in {Label(1080), Unparseable}
                                /\ x.quality = Unparseable /\ x.video}}

\* functions/api/info.js lines 307-313: the formats of a Cobalt answer
CobaltFormats(cobalt, q) ==
    IF cobalt = "picker"
    THEN <<[url |-> TRUE, quality |-> "unknown"]>>
    ELSE <<[resolution |-> OrElse(parseInt(q), 1080), hasAudio |-> TRUE, src |-> 0]>>

FetchInit ==
    /\ fvariant \in FetchVariants
    /\ request \in (IF fvariant = "fetchVideoInfo" THEN {"ok"}
                    ELSE IF fvariant = "cobaltPost"
                         THEN {"ok", "noVideoId", "invalidBody"}
                         ELSE {"ok", "noVideoId"})
    /\ quality \in (IF fvariant = "invidious" THEN {Unparseable, IntVal(720)}
                    ELSE {Absent})
    /\ instanceIdx = 1
    /\ fpc = "entry"
    /\ net = "idle"
    /\ inFlight = {}
    /\ timers = {}
    /\ attempts = <<>>
    /\ outcomes = <<>>
    /\ lastError = NoError
    /\ cobaltResult = "none"
    /\ result = NoResult
    /\ CatalogIdle
    /\ ResolverIdle
    /\ ClientIdle
    /\ CallsIdle

\* the checks before the loop: a missing video ID is answered 400, a
\* request body that is not JSON is answered 500 (onRequestPost)
\* the handler goes on without looking at videoId
PassesVideoIdCheck_Unchecked == TRUE

\* if (!videoId) return 400; an unreadable body makes onRequestPost throw
\* before the test
PassesVideoIdCheck == request = "ok"

RejectRequest ==
    /\ fpc = "entry" /\ ~PassesVideoIdCheck
    /\ result' = IF request = "noVideoId"
                 THEN Response(400, "badRequest", "none", NoError, <<>>)
                 ELSE Response(500, "error", "none", NoError, <<>>)
    /\ fpc' = "done"
    /\ UNCHANGED <<fvariant, request, quality, instanceIdx, net, inFlight, timers,
                   attempts, outcomes, lastError, cobaltResult>>
    /\ UNCHANGED <<catalogVars, resolverVars, clientVars, callVars>>

EnterLoop ==
    /\ fpc = "entry" /\ PassesVideoIdCheck
    /\ fpc' = "loop"
    /\ UNCHANGED <<fvariant, request, quality, instanceIdx, net, inFlight, timers,
                   attempts, outcomes, lastError, cobaltResult, result>>
    /\ UNCHANGED <<catalogVars, resolverVars, clientVars, callVars>>

\* one loop iteration up to "await fetch(..)": arm the timer, issue the call
StartAttempt ==
    /\ fpc = "loop" /\ instanceIdx <= Len(Endpoints(fvariant))
    /\ timers' = IF UsesTimer(fvariant, instanceIdx) THEN timers \cup {instanceIdx}
                 ELSE timers
    /\ inFlight' = inFlight \cup {instanceIdx}
    /\ attempts' = Append(attempts, Endpoints(fvariant)[instanceIdx])
    /\ net' = "pending"
    /\ fpc' = "awaitFetch"
    /\ UNCHANGED <<fvariant, request, quality, instanceIdx, outcomes, lastError,
                   cobaltResult, result>>
    /\ UNCHANGED <<catalogVars, resolverVars, clientVars, callVars>>

\* the loop has run through its list
Exhausted ==
    /\ fpc = "loop" /\ instanceIdx > Len(Endpoints(fvariant))
    /\ result' = ExhaustedResult(fvariant, lastError)
    /\ fpc' = "done"
    /\ UNCHANGED <<fvariant, request, quality, instanceIdx, net, inFlight, timers,
                   attempts, outcomes, lastError, cobaltResult>>
    /\ UNCHANGED <<catalogVars, resolverVars, clientVars, callVars>>

\* the attempt on the current endpoint has failed: what the code does next
\* (timers are left to the caller).  pending is what is left in flight of
\* the failed call: nothing, since fetch() has settled or was aborted.
Settle(kind, pending) ==
    /\ outcomes' = Append(outcomes, kind)
    /\ inFlight' = (inFlight \ {instanceIdx}) \cup pending
    /\ net' = "idle"
    /\ lastError' = IF RecordsLastError(fvariant)
                    THEN [endpoint |-> Endpoints(fvariant)[instanceIdx], kind |-> kind]
                    ELSE lastError
    /\ IF fvariant = "invidious" /\ instanceIdx = CobaltIdx
       THEN \* getCobaltDownload returned null: lines 318-322
            /\ result' = ExhaustedResult(fvariant, NoError)
            /\ fpc' = "done"
            /\ UNCHANGED instanceIdx
       ELSE IF fvariant = "invidious" /\ instanceIdx = OEmbedIdx
       THEN \* oEmbed failed: the default meta is used, lines 291-315
            /\ result' = Response(200, "success", YTDLP_COBALT_URL, NoError,
                                  CobaltFormats(cobaltResult, quality))
            /\ fpc' = "done"
            /\ UNCHANGED instanceIdx
       ELSE /\ instanceIdx' = instanceIdx + 1
            /\ fpc' = "loop"
            /\ UNCHANGED result
    /\ UNCHANGED <<fvariant, request, quality, attempts, cobaltResult>>
    /\ UNCHANGED <<catalogVars, resolverVars, clientVars, callVars>>

Fail(kind) == Settle(kind, {})

\* the loop steps over the endpoint that follows a failed one
Fail_SkipsNext(kind) ==
    /\ outcomes' = Append(outcomes, kind)
    /\ inFlight' = inFlight \ {instanceIdx}
    /\ net' = "idle"
    /\ lastError' = lastError
    /\ instanceIdx' = instanceIdx + 2
    /\ fpc' = "loop"
    /\ UNCHANGED <<fvariant, request, quality, attempts, cobaltResult, result>>
    /\ UNCHANGED <<catalogVars, resolverVars, clientVars, callVars>>

\* a status that is not a success status makes the loop skip an endpoint
RespondNotOk_SkipsNext ==
    /\ fpc = "awaitFetch" /\ net = "pending"
    /\ timers' = timers \ {instanceIdx}
    /\ Fail_SkipsNext("http")

\* fetch() resolved with a status that is not a success status
RespondNotOk ==
    /\ fpc = "awaitFetch" /\ net = "pending"
    /\ timers' = timers \ {instanceIdx}
    /\ Fail("http")

\* fetch() rejected with a network error
NetworkError ==
    /\ fpc = "awaitFetch" /\ net = "pending"
    /\ timers' = IF ClearsTimerOnReject(fvariant) THEN timers \ {instanceIdx}
                 ELSE timers
    /\ Fail("network")

\* fetch() resolved with a success status: clearTimeout, then
\* "await response.json()"
RespondOk ==
    /\ fpc = "awaitFetch" /\ net = "pending"
    /\ timers' = timers \ {instanceIdx}
    /\ net' = "body"
    /\ fpc' = "awaitBody"
    /\ UNCHANGED <<fvariant, request, quality, instanceIdx, inFlight, attempts,
                   outcomes, lastError, cobaltResult, result>>
    /\ UNCHANGED <<catalogVars, resolverVars, clientVars, callVars>>

\* the endpoint will never answer the pending call
GoSilent ==
    /\ fpc = "awaitFetch" /\ net = "pending"
    /\ net' = "silent"
    /\ UNCHANGED <<fvariant, request, quality, instanceIdx, fpc, inFlight, timers,
                   attempts, outcomes, lastError, cobaltResult, result>>
    /\ UNCHANGED <<catalogVars, resolverVars, clientVars, callVars>>

\* the timer fires but the call was issued without the controller's signal:
\* the loop moves on while the call stays in flight
Timeout_NoAbort ==
    /\ fpc = "awaitFetch" /\ instanceIdx \in timers
    /\ timers' = timers \ {instanceIdx}
    /\ Settle("timeout", {instanceIdx})

\* the timer of the pending call fires: controller.abort() rejects fetch()
Timeout ==
    /\ fpc = "awaitFetch" /\ instanceIdx \in timers
    /\ timers' = timers \ {instanceIdx}
    /\ Fail("timeout")

\* a timer that was never cleared fires after its attempt has ended:
\* abort() on a settled call does nothing
StaleTimerFires ==
    /\ \E j \in timers :
          /\ ~(fpc = "awaitFetch" /\ j = instanceIdx)
          /\ timers' = timers \ {j}
    /\ UNCHANGED <<fvariant, request, quality, instanceIdx, fpc, net, inFlight,
                   attempts, outcomes, lastError, cobaltResult, result>>
    /\ UNCHANGED <<catalogVars, resolverVars, clientVars, callVars>>

\* response.json() threw, or the parsed body is not one the handler can use
\* (for onRequestPost: no stream / redirect / picker / url in it)
BodyUnusable ==
    /\ fpc = "awaitBody" /\ net = "body"
    /\ UNCHANGED timers
    /\ Fail("body")

\* the body never finishes arriving
BodyStalls ==
    /\ fpc = "awaitBody" /\ net = "body"
    /\ net' = "stalled"
    /\ UNCHANGED <<fvariant, request, quality, instanceIdx, fpc, inFlight, timers,
                   attempts, outcomes, lastError, cobaltResult, result>>
    /\ UNCHANGED <<catalogVars, resolverVars, clientVars, callVars>>

\* an empty formats list treated as a failed fetch
GetVideoInfoReturns_EmptyIsFailure(raw, from) ==
    IF BuildCatalogGetVideoInfo(raw) = <<>>
    THEN ExhaustedResult("invidious", NoError)
    ELSE Response(200, "success", from, NoError, BuildCatalogGetVideoInfo(raw))

\* getVideoInfo returns videoInfo whenever an instance answered with a
\* usable body, whatever survives in formats (lines 221-232), and
\* onRequestGet passes it on (lines 282-284)
GetVideoInfoReturns(raw, from) ==
    Response(200, "success", from, NoError, BuildCatalogGetVideoInfo(raw))

\* the loop goes on after a usable body (the return left out)
BodyUsable_NoReturn ==
    /\ fpc = "awaitBody" /\ net = "body"
    /\ outcomes' = Append(outcomes, "success")
    /\ inFlight' = inFlight \ {instanceIdx}
    /\ net' = "idle"
    /\ result' = Response(200, "success", Endpoints(fvariant)[instanceIdx],
                          NoError, <<>>)
    /\ instanceIdx' = instanceIdx + 1
    /\ fpc' = "loop"
    /\ UNCHANGED <<fvariant, request, quality, timers, attempts, lastError,
                   cobaltResult>>
    /\ UNCHANGED <<catalogVars, resolverVars, clientVars, callVars>>

\* the body parsed and is usable: the handler returns it, except that the
\* Invidious handler goes on to oEmbed after Cobalt
BodyUsable ==
    /\ fpc = "awaitBody" /\ net = "body"
    /\ ~(fvariant = "invidious" /\ instanceIdx <= Len(INVIDIOUS_INSTANCES))
    /\ outcomes' = Append(outcomes, "success")
    /\ inFlight' = inFlight \ {instanceIdx}
    /\ net' = "idle"
    /\ IF fvariant = "invidious" /\ instanceIdx = CobaltIdx
       THEN /\ cobaltResult' \in {"url", "picker"}
            /\ instanceIdx' = OEmbedIdx
            /\ fpc' = "loop"
            /\ UNCHANGED result
       ELSE IF fvariant = "invidious" /\ instanceIdx = OEmbedIdx
       THEN /\ result' = Response(200, "success", YTDLP_COBALT_URL, NoError,
                                  CobaltFormats(cobaltResult, quality))
            /\ fpc' = "done"
            /\ UNCHANGED <<instanceIdx, cobaltResult>>
       ELSE /\ result' = Response(200, "success", Endpoints(fvariant)[instanceIdx],
                                  NoError, <<>>)
            /\ fpc' = "done"
            /\ UNCHANGED <<instanceIdx, cobaltResult>>
    /\ UNCHANGED <<fvariant, request, quality, timers, attempts, lastError>>
    /\ UNCHANGED <<catalogVars, resolverVars, clientVars, callVars>>

\* an Invidious instance answered with a usable body: getVideoInfo builds
\* the formats from it and returns
InvidiousBodyUsable ==
    /\ fpc = "awaitBody" /\ net = "body"
    /\ fvariant = "invidious" /\ instanceIdx <= Len(INVIDIOUS_INSTANCES)
    /\ outcomes' = Append(outcomes, "success")
    /\ inFlight' = inFlight \ {instanceIdx}
    /\ net' = "idle"
    /\ \E raw \in InvidiousBodies :
          /\ rawFormats' = raw
          /\ result' = GetVideoInfoReturns(raw, Endpoints(fvariant)[instanceIdx])
    /\ fpc' = "done"
    /\ UNCHANGED <<fvariant, request, quality, instanceIdx, timers, attempts,
                   lastError, cobaltResult>>
    /\ UNCHANGED <<variant, catalog, cpc, resolverVars, clientVars, callVars>>

FetchNext ==
    \/ RejectRequest
    \/ EnterLoop
    \/ StartAttempt
    \/ Exhausted
    \/ RespondNotOk
    \/ NetworkError
    \/ RespondOk
    \/ GoSilent
    \/ Timeout
    \/ StaleTimerFires
    \/ BodyUnusable
    \/ BodyStalls
    \/ BodyUsable
    \/ InvidiousBodyUsable

SpecFetch == FetchInit /\ [][FetchNext]_vars

-----------------------------------------------------------------------------
(***************************************************************************)
(* Claims about the fallback fetch (checked under SpecFetch).              *)
(***************************************************************************)

Range(f) == {f[k] : k \in DOMAIN f}

IndexIn(list, x) == CHOOSE k \in 1..Len(list) : list[k] = x

\* the call has returned the answer of an endpoint of its fallback list
ReturnedFromFallback ==
    /\ fpc = "done"
    /\ result.kind = "success"
    /\ result.from \in Range(FallbackList(fvariant))

\* C3: a fallback fetch returns the response of the first endpoint, in list
\* order, whose attempt is a parseable success: every endpoint before it
\* was attempted and failed, and no endpoint after it is attempted.
C3_FirstParseableSuccess ==
    ReturnedFromFallback =>
        LET i == IndexIn(FallbackList(fvariant), result.from)
        IN  /\ attempts = SubSeq(FallbackList(fvariant), 1, i)
            /\ Len(outcomes) = i
            /\ \A k \in 1..(i - 1) : outcomes[k] \in FailureKinds
            /\ outcomes[i] = "success"

\* the scenario of spec section 8: A fails, B times out, C succeeds
C3_Witness ==
    /\ ReturnedFromFallback
    /\ fvariant = "piped"
    /\ outcomes = <<"http", "timeout", "success">>
    /\ result.from = PIPED_INSTANCES[3]

\* C4: a fetch call never hangs on an endpoint that does not respond:
\* whenever a call waits for an endpoint that will never answer, the
\* attempt's timeout is armed and can abort it, so the loop advances.
C4_SilentEndpointTimesOut ==
    (fpc = "awaitFetch" /\ net = "silent") => ENABLED Timeout

\* every endpoint of the fallback list was attempted and failed
AllFallbackFailed ==
    /\ Len(outcomes) >= Len(FallbackList(fvariant))
    /\ \A k \in 1..Len(FallbackList(fvariant)) : outcomes[k] \in FailureKinds

\* C5: when every endpoint fails, the fetch ends with the exhausted result,
\* and that result carries the error of the last endpoint attempted.
C5_ExhaustedCarriesLastError ==
    (fpc = "done" /\ AllFallbackFailed /\ result.kind = "exhausted") =>
        LET n == Len(FallbackList(fvariant))
        IN  result.details = [endpoint |-> FallbackList(fvariant)[n],
                              kind |-> outcomes[n]]

\* C6: within one call no endpoint is attempted more than once, and when
\* the call ends exhausted every endpoint of the list was attempted exactly
\* once.
C6_OneAttemptPerEndpoint ==
    /\ \A a, b \in 1..Len(attempts) : a # b => attempts[a] # attempts[b]
    /\ (fpc = "done" /\ result.kind = "exhausted") =>
          \A e \in Range(FallbackList(fvariant)) :
              Cardinality({k \in 1..Len(attempts) : attempts[k] = e}) = 1

\* a call that ended exhausted after failures of every kind
C6_Witness ==
    /\ fpc = "done" /\ result.kind = "exhausted"
    /\ fvariant = "piped"
    /\ attempts = PIPED_INSTANCES
    /\ Range(outcomes) = FailureKinds

\* C7: at most one endpoint attempt is in flight at any time, and the
\* attempt on the next endpoint of the list starts only after the attempt
\* before it has failed or timed out.
C7_Sequential ==
    /\ Cardinality(inFlight) <= 1
    /\ fpc \in {"awaitFetch", "awaitBody"} => inFlight = {instanceIdx}
    /\ \A k \in 2..Len(attempts) :
          attempts[k] \in Range(FallbackList(fvariant))
              => (Len(outcomes) >= k - 1 /\ outcomes[k - 1] \in FailureKinds)

\* the third attempt is in flight after a failure and a timeout
C7_Witness ==
    /\ fpc = "awaitFetch"
    /\ inFlight = {3}
    /\ outcomes = <<"network", "timeout">>

\* an Invidious instance answered with a usable body of which no entry
\* survives filtering
InvidiousAnsweredNothingUsable ==
    /\ fvariant = "invidious"
    /\ fpc = "done"
    /\ \E k \in 1..Len(outcomes) :
          k <= Len(INVIDIOUS_INSTANCES) /\ outcomes[k] = "success"
    /\ \A i \in 1..Len(rawFormats) : ~Accepted("getVideoInfo", rawFormats[i])

\* C9: in the Invidious /api/info handler, when an instance answers
\* successfully but no entry survives filtering, the caller receives a
\* result that differs from the total-failure result (it is a 200 success
\* of that instance, not the 502) and from every success with a catalog
\* (its formats list is empty, theirs never is).
C9_EmptyCatalogDistinguishable ==
    /\ InvidiousAnsweredNothingUsable =>
          /\ result.status = 200
          /\ result.kind = "success"
          /\ result.from \in Range(INVIDIOUS_INSTANCES)
          /\ result.formats = <<>>
    /\ (fvariant = "invidious" /\ fpc = "done" /\ ~InvidiousAnsweredNothingUsable) =>
          \/ result.status # 200
          \/ (result.kind = "success" /\ result.formats # <<>>)

\* the second instance answered with one entry whose resolution does not
\* parse
C9_Witness ==
    /\ InvidiousAnsweredNothingUsable
    /\ Len(rawFormats) = 1
    /\ outcomes = <<"http", "success">>

-----------------------------------------------------------------------------
(***************************************************************************)
(* The URL resolver: extractVideoId.                                       *)
(*                                                                         *)
(* A string is a sequence of one-character strings.  Every pattern of the  *)
(* source is a group of literal alternatives followed by the capture       *)
(* ([a-zA-Z0-9_-]{11}); String.prototype.match searches it from the left.  *)
(***************************************************************************)

\* {11}: the length of the captured identifier
CaptureLength == 11

\* the class [a-zA-Z0-9_-]
IdChars ==
    {"a", "b", "c", "d", "e", "f", "g", "h", "i", "j", "k", "l", "m", "n",
     "o", "p", "q", "r", "s", "t", "u", "v", "w", "x", "y", "z", "A", "B",
     "C", "D", "E", "F", "G", "H", "I", "J", "K", "L", "M", "N", "O", "P",
     "Q", "R", "S", "T", "U", "V", "W", "X", "Y", "Z", "0", "1", "2", "3",
     "4", "5", "6", "7", "8", "9", "_", "-"}

\* the literals of the patterns, "\." and "\/" and "\?" unescaped
WatchLiteral ==
    <<"y", "o", "u", "t", "u", "b", "e", ".", "c", "o", "m", "/", "w", "a",
      "t", "c", "h", "?", "v", "=">>

ShortLiteral ==
    <<"y", "o", "u", "t", "u", ".", "b", "e", "/">>

EmbedLiteral ==
    <<"y", "o", "u", "t", "u", "b", "e", ".", "c", "o", "m", "/", "e", "m",
      "b", "e", "d", "/">>

ShortsLiteral ==
    <<"y", "o", "u", "t", "u", "b", "e", ".", "c", "o", "m", "/", "s", "h",
      "o", "r", "t", "s", "/">>

LiveLiteral ==
    <<"y", "o", "u", "t", "u", "b", "e", ".", "c", "o", "m", "/", "l", "i",
      "v", "e", "/">>

WatchShortEmbedPattern == <<WatchLiteral, ShortLiteral, EmbedLiteral>>
ShortsPattern == <<ShortsLiteral>>
LivePattern == <<LiveLiteral>>

\* const patterns = [..] of each copy of extractVideoId
Patterns(v) ==
    IF v = "App2"
    THEN <<WatchShortEmbedPattern, ShortsPattern>>
    ELSE <<WatchShortEmbedPattern, ShortsPattern, LivePattern>>

\* the literal stands in s at position p and the capture follows it
MatchesAt(s, p, literal) ==
    /\ p + Len(literal) + CaptureLength - 1 <= Len(s)
    /\ SubSeq(s, p, p + Len(literal) - 1) = literal
    /\ \A k \in 1..CaptureLength : s[p + Len(literal) - 1 + k] \in IdChars

CaptureAt(s, p, literal) ==
    SubSeq(s, p + Len(literal), p + Len(literal) + CaptureLength - 1)

Least(S) == CHOOSE x \in S : \A y \in S : x <= y

\* s.match(pattern)[1], or Null when s.match(pattern) is null: the match is
\* the one at the leftmost position, by the first alternative that matches
\* there
Match(s, pattern) ==
    LET hits == {p \in 1..Len(s) :
                    \E a \in 1..Len(pattern) : MatchesAt(s, p, pattern[a])}
    IN  IF hits = {} THEN Null
        ELSE LET p == Least(hits)
                 a == Least({b \in 1..Len(pattern) : MatchesAt(s, p, pattern[b])})
             IN  CaptureAt(s, p, pattern[a])

\* for (const pattern of patterns) { .. if (match) return match[1] } return null
RECURSIVE FirstMatch(_, _, _)
FirstMatch(patterns, k, s) ==
    IF k > Len(patterns) THEN Null
    ELSE IF Match(s, patterns[k]) # Null THEN Match(s, patterns[k])
         ELSE FirstMatch(patterns, k + 1, s)

extractVideoId(v, s) == FirstMatch(Patterns(v), 1, s)

(***************************************************************************)
(* One call of extractVideoId on a bounded input.                          *)
(***************************************************************************)

\* the inputs are made of at most MaxChunks pieces
MaxChunks == 3

ResolverVariants == {"part_000", "part_001", "App1", "App2"}

Scheme ==
    <<"h", "t", "t", "p", "s", ":", "/", "/">>

Token ==
    <<"d", "Q", "w", "4", "w", "9", "W", "g", "X", "c", "Q">>

HalfToken ==
    <<"a", "_", "B", "-", "9">>

NotAUrl ==
    <<"n", "o", "t", " ", "a", " ", "u", "r", "l">>

ShortLiteralOtherDot ==
    <<"y", "o", "u", "t", "u", "X", "b", "e", "/">>

Pieces ==
    {Scheme, WatchLiteral, ShortLiteral, EmbedLiteral, ShortsLiteral, LiveLiteral,
     Token, HalfToken, NotAUrl, ShortLiteralOtherDot}

RECURSIVE Flatten(_)
Flatten(chunks) ==
    IF chunks = <<>> THEN <<>> ELSE Head(chunks) \o Flatten(Tail(chunks))

\* a shorts link followed by a short link to another video: the first
\* pattern of the list matches at the second link
TwoLinks ==
    ShortsLiteral \o Token \o NotAUrl \o ShortLiteral \o HalfToken \o Token

Inputs == {Flatten(c) : c \in SeqsUpTo(Pieces, MaxChunks)} \cup {TwoLinks}

ResolverInit ==
    /\ rvariant \in ResolverVariants
    /\ input \in Inputs
    /\ videoId = Null
    /\ rpc = "call"
    /\ CatalogIdle
    /\ FetchIdle
    /\ ClientIdle
    /\ CallsIdle

ExtractVideoId ==
    /\ rpc = "call"
    /\ videoId' = extractVideoId(rvariant, input)
    /\ rpc' = "done"
    /\ UNCHANGED <<rvariant, input>>
    /\ UNCHANGED <<catalogVars, fetchVars, clientVars, callVars>>

ResolverNext == ExtractVideoId

SpecResolver == ResolverInit /\ [][ResolverNext]_vars

\* the five supported URL shapes, as the ordered pattern list of the
\* resolver's contract: watch, short and embed links, then shorts, then live
SupportedPatterns == <<WatchShortEmbedPattern, ShortsPattern, LivePattern>>

\* C10: in every variant of extractVideoId the result for an input that
\* contains one of the five supported URL shapes is the 11-character token
\* captured by the first matching pattern, unchanged, and the result for
\* every other input is null.
C10_FiveShapesResolved ==
    rpc = "done" => videoId = FirstMatch(SupportedPatterns, 1, input)

-----------------------------------------------------------------------------
(***************************************************************************)
(* The page: the React state of App and its handleFetch calls, for the     *)
(* three Apps that build a catalog (part_001 and the two Apps of           *)
(* src/App.jsx).  A handleFetch call runs up to its await in one step and  *)
(* from the response to its end in another.                                *)
(***************************************************************************)

\* the responses hold at most MaxStreams raw entries
MaxStreams == 2

ClientVariants == {"part_001", "App1", "App2"}

ClientUrls ==
    {<<>>, NotAUrl, Scheme \o ShortLiteral \o Token, Scheme \o LiveLiteral \o Token}

\* the entries of the responses given to the page: those with a video
\* track whose resolution is a number or a label
ClientEntries(v) ==
    {e \in RawEntries(v) :
        e.video /\ e.quality # Unparseable /\ e.resolution # Unparseable}

ClientBodies(v) == SeqsUpTo(ClientEntries(v), MaxStreams)

\* no message is set for an input without a video id
InvalidUrlMessage_Empty == ""

InvalidUrlMessage == "Please enter a valid YouTube URL"
NoTitleMessage == "Video not found or unavailable"
DefaultMessage == "Could not fetch video info. Please try again."

NoFormatsMessage(v) ==
    IF v = "App1" THEN "No downloadable formats available for this video"
    ELSE "No downloadable formats found for this video"

\* err.message || '..' for what the awaited call may throw
ThrownMessages(v) ==
    IF v = "App2" THEN {"All API instances failed"}
    ELSE {"Failed to fetch", DefaultMessage}

\* the "Try again" button, rendered with the error
HasRetryButton(v) == v \in {"part_000", "part_001", "App1"}

\* the submit button is never disabled
SubmitEnabled_Always == TRUE

\* <button type="submit" disabled={loading}>
SubmitEnabled == ~loading

\* uniqueQualities as the App computes it: the outcomes of the first App's
\* sort are several
ClientCatalogs(v, raw) ==
    CASE v = "part_001" -> {BuildCatalogPart001(raw)}
      [] v = "App1" -> BuildCatalogApp1(raw)
      [] v = "App2" -> {BuildCatalogApp2(raw)}

\* uniqueQualities[0], undefined for an empty list
\* the last entry is selected
First_Last(uniqueQualities) ==
    IF Len(uniqueQualities) > 0 THEN <<uniqueQualities[Len(uniqueQualities)]>>
    ELSE Null

First(uniqueQualities) ==
    IF Len(uniqueQualities) > 0 THEN <<uniqueQualities[1]>> ELSE Null

\* part_000 has no catalog: the user picks one of QUALITY_OPTIONS (the
\* value strings '2160' .. '360', written as numbers) and the Cobalt proxy
\* resolves the URL at download time
PageVariants == ClientVariants \cup {"part_000"}

QUALITY_OPTIONS == {2160, 1440, 1080, 720, 480, 360}

\* useState(null), useState('1080') in part_000
InitialSelection(v) == IF v = "part_000" THEN <<1080>> ELSE Null

ClientInit ==
    /\ cvariant \in PageVariants
    /\ url = <<>>
    /\ loading = FALSE
    /\ videoInfo = Null
    /\ availableQualities = <<>>
    /\ selectedQuality = InitialSelection(cvariant)
    /\ error = ""
    /\ pendingCalls = <<>>
    /\ data = NoData
    /\ downloading = FALSE
    /\ opened = <<>>
    /\ pendingDownloads = <<>>
    /\ downloadTimers = 0
    /\ CatalogIdle
    /\ FetchIdle
    /\ ResolverIdle
    /\ CallsIdle

\* handleFetch goes on whatever the input is
IsEmptyUrl_Never(u) == FALSE

\* if (!url) return
IsEmptyUrl(u) == u = <<>>

\* the finally block leaves loading as it is
LoadingAfterFetch_Kept == loading

\* finally { setLoading(false) }
LoadingAfterFetch == FALSE

\* handleFetch leaves the published video info as it is
ClearedVideoInfo_Kept == videoInfo

\* setVideoInfo(null) at the start of handleFetch
ClearedVideoInfo == Null

\* handleFetch leaves the published list as it is
ClearedQualities_Kept == availableQualities

\* setAvailableQualities([]) / setQualities([]) at the start of handleFetch
ClearedQualities == <<>>

\* onChange of the input box
SetUrl ==
    /\ \E u \in ClientUrls : u # url /\ url' = u
    /\ UNCHANGED <<cvariant, loading, videoInfo, availableQualities,
                   selectedQuality, error, pendingCalls, data>>
    /\ UNCHANGED downloadVars
    /\ UNCHANGED <<catalogVars, fetchVars, resolverVars, callVars>>

\* handleFetch from the submit of the form (its button is disabled while
\* loading) or from "Try again", up to the await
HandleFetch ==
    /\ SubmitEnabled \/ (HasRetryButton(cvariant) /\ error # "")
    /\ IF IsEmptyUrl(url)
       THEN UNCHANGED <<loading, videoInfo, availableQualities, selectedQuality,
                        error, pendingCalls, data>>
       ELSE /\ data' = NoData
            /\ videoInfo' = ClearedVideoInfo
            /\ availableQualities' = ClearedQualities
            /\ selectedQuality' = IF cvariant = "part_000" THEN selectedQuality
                                  ELSE Null
            /\ IF extractVideoId(cvariant, url) = Null
               THEN /\ error' = InvalidUrlMessage
                    /\ loading' = FALSE
                    /\ UNCHANGED pendingCalls
               ELSE /\ error' = ""
                    /\ loading' = TRUE
                    /\ pendingCalls' = Append(pendingCalls,
                                              extractVideoId(cvariant, url))
    /\ UNCHANGED <<cvariant, url>>
    /\ UNCHANGED downloadVars
    /\ UNCHANGED <<catalogVars, fetchVars, resolverVars, callVars>>

\* the catch and finally blocks of call k
Catch(k, message, kind) ==
    /\ error' = message
    /\ loading' = LoadingAfterFetch
    /\ pendingCalls' = Splice1(pendingCalls, k)
    /\ data' = [kind |-> kind, streams |-> <<>>]
    /\ UNCHANGED <<cvariant, url, videoInfo, availableQualities, selectedQuality>>
    /\ UNCHANGED downloadVars
    /\ UNCHANGED <<catalogVars, fetchVars, resolverVars, callVars>>

\* the awaited call threw (fetch, response.json() or fetchVideoInfo)
ResponseThrows ==
    \E k \in 1..Len(pendingCalls) :
        \E message \in ThrownMessages(cvariant) : Catch(k, message, "threw")

\* if (data.error) throw new Error(data.error)
ResponseHasError ==
    \E k \in 1..Len(pendingCalls) : Catch(k, "upstream error", "error")

\* part_001: if (!data.title) throw ..
ResponseHasNoTitle ==
    /\ cvariant = "part_001"
    /\ \E k \in 1..Len(pendingCalls) : Catch(k, NoTitleMessage, "noTitle")

\* the empty catalog is published like any other
ThrowsNoFormats_Never(uniqueQualities) == FALSE

\* if (uniqueQualities.length === 0) throw ..
ThrowsNoFormats(uniqueQualities) == Len(uniqueQualities) = 0

\* the response is a video's (no error field; in part_001, a title): the
\* catalog is built, then published unless it is empty
ResponseOk ==
    /\ cvariant \in ClientVariants
    /\ \E k \in 1..Len(pendingCalls) :
        /\ pendingCalls' = Splice1(pendingCalls, k)
        /\ loading' = LoadingAfterFetch
        /\ UNCHANGED <<cvariant, url>>
        /\ UNCHANGED downloadVars
        /\ UNCHANGED <<catalogVars, fetchVars, resolverVars, callVars>>
        /\ \E raw \in ClientBodies(cvariant) :
            /\ data' = [kind |-> "ok", streams |-> raw]
            /\ \E uniqueQualities \in ClientCatalogs(cvariant, raw) :
                IF ThrowsNoFormats(uniqueQualities)
                THEN /\ error' = NoFormatsMessage(cvariant)
                     /\ UNCHANGED <<videoInfo, availableQualities, selectedQuality>>
                ELSE /\ videoInfo' = <<[id |-> pendingCalls[k]]>>
                     /\ availableQualities' = uniqueQualities
                     /\ selectedQuality' = First(uniqueQualities)
                     /\ UNCHANGED error

\* onClick of a quality button (rendered with videoInfo)
SelectQuality ==
    /\ videoInfo # Null
    /\ \E k \in 1..Len(availableQualities) :
          selectedQuality' = <<availableQualities[k]>>
    /\ UNCHANGED <<cvariant, url, loading, videoInfo, availableQualities, error,
                   pendingCalls, data>>
    /\ UNCHANGED downloadVars
    /\ UNCHANGED <<catalogVars, fetchVars, resolverVars, callVars>>

\* part_000: the response has no error field; videoInfo is published with
\* the cobaltData of the response, which may hold a URL
ResponseOkPart000 ==
    /\ cvariant = "part_000"
    /\ \E k \in 1..Len(pendingCalls) :
        \E cobaltData \in {"url", "none"} :
          /\ videoInfo' = <<[id |-> pendingCalls[k], cobaltData |-> cobaltData]>>
          /\ loading' = LoadingAfterFetch
          /\ pendingCalls' = Splice1(pendingCalls, k)
          /\ data' = [kind |-> "ok", streams |-> <<>>]
          /\ UNCHANGED <<cvariant, url, availableQualities, selectedQuality, error>>
          /\ UNCHANGED downloadVars
          /\ UNCHANGED <<catalogVars, fetchVars, resolverVars, callVars>>

\* part_000: onClick of one of the QUALITY_OPTIONS buttons
SelectQualityOption ==
    /\ cvariant = "part_000"
    /\ videoInfo # Null
    /\ \E q \in QUALITY_OPTIONS : selectedQuality' = <<q>>
    /\ UNCHANGED <<cvariant, url, loading, videoInfo, availableQualities, error,
                   pendingCalls, data>>
    /\ UNCHANGED downloadVars
    /\ UNCHANGED <<catalogVars, fetchVars, resolverVars, callVars>>

(***************************************************************************)
(* handleDownload.  A URL is a record: the media URL of the raw entry at   *)
(* position ref of the response, the URL /api/download resolved for the    *)
(* quality ref, the cobaltData URL of the response, the fallbackUrl of the *)
(* /api/download answer, or the ssyoutube URL built in the catch block.    *)
(***************************************************************************)

Url(kind, ref) == [kind |-> kind, ref |-> ref]

\* selectedQuality.url
UrlOf(q) == Url("media", q.src)

\* a media URL in the place of the redirect URL
SsyoutubeUrl_Media(id) == Url("media", id)

\* `https://ssyoutube.com/watch?v=${id}` (part_000 line 126, info.js line
\* 419); the handler's outer catch answers with https://ssyoutube.com/,
\* taken here as the URL of the empty id
SsyoutubeUrl(id) == Url("ssyoutube", id)

\* the first App: if (!selectedQuality?.url) return; link.click()
HandleDownloadApp1 ==
    /\ cvariant = "App1"
    /\ videoInfo # Null /\ selectedQuality # Null
    /\ opened' = IF data.streams[selectedQuality[1].src].url
                 THEN <<UrlOf(selectedQuality[1])>>
                 ELSE <<>>
    /\ UNCHANGED <<downloading, pendingDownloads, downloadTimers>>
    /\ UNCHANGED <<cvariant, url, loading, videoInfo, availableQualities,
                   selectedQuality, error, pendingCalls, data>>
    /\ UNCHANGED <<catalogVars, fetchVars, resolverVars, callVars>>

\* part_001 and the second App: window.open(selectedQuality.url), then
\* setTimeout(() => setDownloading(false), 2000)
HandleDownloadTimed ==
    /\ cvariant \in {"part_001", "App2"}
    /\ videoInfo # Null /\ selectedQuality # Null /\ ~downloading
    /\ downloading' = TRUE
    /\ opened' = <<UrlOf(selectedQuality[1])>>
    /\ downloadTimers' = downloadTimers + 1
    /\ UNCHANGED pendingDownloads
    /\ UNCHANGED <<cvariant, url, loading, videoInfo, availableQualities,
                   selectedQuality, error, pendingCalls, data>>
    /\ UNCHANGED <<catalogVars, fetchVars, resolverVars, callVars>>

\* the timer of handleDownload fires
DownloadTimerFires ==
    /\ downloadTimers > 0
    /\ downloadTimers' = downloadTimers - 1
    /\ downloading' = FALSE
    /\ UNCHANGED <<opened, pendingDownloads>>
    /\ UNCHANGED <<cvariant, url, loading, videoInfo, availableQualities,
                   selectedQuality, error, pendingCalls, data>>
    /\ UNCHANGED <<catalogVars, fetchVars, resolverVars, callVars>>

\* part_000 handleDownload up to its await: the cobaltData URL is opened
\* if there is one, else /api/download is asked for the selected quality
HandleDownloadPart000 ==
    /\ cvariant = "part_000"
    /\ videoInfo # Null /\ ~downloading
    /\ error' = ""
    /\ IF videoInfo[1].cobaltData = "url"
       THEN /\ opened' = <<Url("cobaltData", 0)>>
            /\ downloading' = FALSE
            /\ UNCHANGED pendingDownloads
       ELSE /\ opened' = <<>>
            /\ downloading' = TRUE
            /\ pendingDownloads' =
                  Append(pendingDownloads,
                         [id |-> videoInfo[1].id, quality |-> selectedQuality[1]])
    /\ UNCHANGED downloadTimers
    /\ UNCHANGED <<cvariant, url, loading, videoInfo, availableQualities,
                   selectedQuality, pendingCalls, data>>
    /\ UNCHANGED <<catalogVars, fetchVars, resolverVars, callVars>>

\* the end of call k of handleDownload, opening u
EndDownload(k, u) ==
    /\ opened' = Append(opened, u)
    /\ downloading' = FALSE
    /\ pendingDownloads' = Splice1(pendingDownloads, k)
    /\ UNCHANGED downloadTimers
    /\ UNCHANGED <<cvariant, url, loading, videoInfo, availableQualities,
                   selectedQuality, error, pendingCalls, data>>
    /\ UNCHANGED <<catalogVars, fetchVars, resolverVars, callVars>>

\* /api/download answered with a url
DownloadResolves ==
    \E k \in 1..Len(pendingDownloads) :
        EndDownload(k, Url("download", pendingDownloads[k].quality))

\* /api/download answered without a url but with a fallbackUrl (all Cobalt
\* instances failed, or the handler's outer catch)
DownloadFallsBack ==
    \E k \in 1..Len(pendingDownloads) :
        \E id \in {pendingDownloads[k].id, <<>>} : EndDownload(k, SsyoutubeUrl(id))

\* the call threw, or the answer has neither field: the catch block opens
\* the ssyoutube URL
DownloadThrows ==
    \E k \in 1..Len(pendingDownloads) :
        EndDownload(k, SsyoutubeUrl(pendingDownloads[k].id))

ClientNext ==
    \/ SetUrl
    \/ HandleFetch
    \/ ResponseThrows
    \/ ResponseHasError
    \/ ResponseHasNoTitle
    \/ ResponseOk
    \/ SelectQuality
    \/ ResponseOkPart000
    \/ SelectQualityOption
    \/ HandleDownloadApp1
    \/ HandleDownloadTimed
    \/ DownloadTimerFires
    \/ HandleDownloadPart000
    \/ DownloadResolves
    \/ DownloadFallsBack
    \/ DownloadThrows

SpecClient == ClientInit /\ [][ClientNext]_vars

\* the awaited call of a handleFetch in flight returns or throws
FetchReturns ==
    \/ ResponseThrows
    \/ ResponseHasError
    \/ ResponseHasNoTitle
    \/ ResponseOk
    \/ ResponseOkPart000

\* the page when every awaited network call comes back
SpecClientLive == SpecClient /\ WF_vars(FetchReturns)

\* no entry of the response has a positive resolution
NoPositiveResolution(v, streams) ==
    \A i \in 1..Len(streams) : ~(RawResolution(v, streams[i]) > 0)

\* a handleFetch call ends on a video's response
EndsOnVideoResponse ==
    /\ Len(pendingCalls') < Len(pendingCalls)
    /\ data'.kind = "ok"

\* C8: in the client handleFetch variants, when the response is a success
\* but every raw entry has a non-positive or unparseable resolution, the
\* call ends with the no-downloadable-formats error: the error state is set
\* and no video info, catalog or selection is published.
C8_EmptyCatalogIsError ==
    [][(/\ cvariant \in ClientVariants
        /\ EndsOnVideoResponse
        /\ NoPositiveResolution(cvariant, data'.streams))
          => /\ error' = NoFormatsMessage(cvariant)
             /\ videoInfo' = Null
             /\ availableQualities' = <<>>
             /\ selectedQuality' = Null
             /\ ~loading']_vars

\* a response of two entries, neither with a usable resolution, has just
\* been worked on
C8_Witness ==
    /\ data.kind = "ok"
    /\ Len(data.streams) = MaxStreams
    /\ NoPositiveResolution(cvariant, data.streams)
    /\ error = NoFormatsMessage(cvariant)
    /\ videoInfo = Null
    /\ pendingCalls = <<>>

\* handleFetch is called on a non-empty input in which extractVideoId
\* finds no video id
SubmitsInvalidUrl ==
    /\ HandleFetch
    /\ url # <<>>
    /\ extractVideoId(cvariant, url) = Null

\* C11: when extractVideoId finds no matching pattern for a non-empty
\* input, handleFetch surfaces the invalid-URL error directly: the error
\* state is set, loading is false again, no network request is issued, and
\* no video info or catalog is published.
C11_InvalidUrlSurfaced ==
    [][SubmitsInvalidUrl
          => /\ error' # ""
             /\ error' = InvalidUrlMessage
             /\ ~loading'
             /\ pendingCalls' = pendingCalls
             /\ videoInfo' = Null
             /\ availableQualities' = <<>>]_vars

\* the invalid-URL error is shown for "not a url"
C11_Witness ==
    /\ url = NotAUrl
    /\ error = InvalidUrlMessage
    /\ ~loading
    /\ pendingCalls = <<>>
    /\ videoInfo = Null

\* a handleDownload call of part_000 ends after its request to
\* /api/download has failed
DownloadEndsInFailure == DownloadFallsBack \/ DownloadThrows

\* C12: no operation swallows a failure silently: a fetch or download
\* operation in which a step fails ends with an error visible to the
\* caller, never with a success-looking result or without any error
\* indication.  Here: a download whose request failed leaves an error
\* message.
C12_FailedDownloadShowsError ==
    [][DownloadEndsInFailure => error' # ""]_vars

\* a handleDownload call ends in this step (for part_000: at once with the
\* cobaltData URL, or with the answer of /api/download)
DownloadEnds ==
    \/ HandleDownloadApp1
    \/ HandleDownloadTimed
    \/ (HandleDownloadPart000 /\ pendingDownloads' = pendingDownloads)
    \/ DownloadResolves
    \/ DownloadFallsBack
    \/ DownloadThrows

\* u is a media URL of the selection the download was triggered with: the
\* url of the selected descriptor, or in part_000 the URL resolved for the
\* video (the cobaltData URL is counted as one)
IsSelectedMediaUrl(u) ==
    IF cvariant = "part_000"
    THEN u.kind \in {"download", "cobaltData"}
    ELSE u = UrlOf(selectedQuality[1])

\* C13: each invocation of the download trigger with a current selection
\* opens exactly one URL, and that URL is the resolved media URL of the
\* user's current selection.
C13_OpensSelectedMediaUrl ==
    [][DownloadEnds
          => (Len(opened') = 1 /\ IsSelectedMediaUrl(opened'[1]))]_vars

-----------------------------------------------------------------------------
(***************************************************************************)
(* Further claims about the catalog builders (checked under SpecCatalog).  *)
(***************************************************************************)

\* the field of a raw entry in which variant v looks for the resolution
ResolutionField(v, e) ==
    CASE v \in {"part_001", "App2"} -> e.quality
      [] v = "App1" -> e.resolution
      [] v = "getVideoInfo" ->
           IF parseInt(e.qualityLabel) # 0 THEN e.qualityLabel ELSE e.quality

\* the vertical resolution that field denotes, label or integer
Denotes(v, e) == parseInt(ResolutionField(v, e))

\* the entry passes the filters of v that do not look at the resolution
PassesOtherFilters(v, e) ==
    /\ v = "App2" => e.video
    /\ v = "getVideoInfo" => (e.url /\ (e.audio \/ e.video))

\* entries i and j denote the same positive resolution, i by a label
\* string and j by an integer
LabelAndInteger(i, j) ==
    /\ ResolutionField(variant, rawFormats[i]).k = "label"
    /\ ResolutionField(variant, rawFormats[j]).k = "int"
    /\ Denotes(variant, rawFormats[i]) = Denotes(variant, rawFormats[j])
    /\ Denotes(variant, rawFormats[i]) > 0
    /\ PassesOtherFilters(variant, rawFormats[i])
    /\ PassesOtherFilters(variant, rawFormats[j])

\* a raw value with a label string replaced by the integer it denotes
CoerceValue(x) == IF x.k = "label" THEN IntVal(x.n) ELSE x

\* the raw entries with every resolution label coerced to an integer
Coerced(raw) ==
    [i \in 1..Len(raw) |->
        [raw[i] EXCEPT !.quality = CoerceValue(@),
                       !.qualityLabel = CoerceValue(@),
                       !.resolution = CoerceValue(@)]]

\* the catalogs a builder may return for raw (the sort of the first App
\* has several outcomes)
Catalogs(v, raw) ==
    IF v = "getVideoInfo" THEN {BuildCatalogGetVideoInfo(raw)}
    ELSE ClientCatalogs(v, raw)

\* C14: resolution values are coerced to one integer unit before any
\* comparison: when one entry gives a resolution as a label string
\* ("1080p") and another gives the same resolution as an integer (1080),
\* they are the same resolution for sorting and deduplication, that is
\* the catalog is the one built from the entries with the labels replaced
\* by integers, and they occupy a single slot, in every variant.
C14_LabelAndIntegerShareSlot ==
    cpc = "built" =>
        \A i, j \in 1..Len(rawFormats) :
            LabelAndInteger(i, j) =>
                /\ Cardinality(SlotsAt(Denotes(variant, rawFormats[i]))) <= 1
                /\ catalog \in Catalogs(variant, Coerced(rawFormats))

PositiveResolutions(v, raw) ==
    {Denotes(v, raw[i]) : i \in 1..Len(raw)} \ {0}

\* C20: in the builders that merge audio-bearing and video-only entries
\* (part_001, the first App, getVideoInfo) the resolutions of the catalog
\* are exactly the positive resolutions occurring among the raw entries:
\* none that is non-positive or unparseable, and none of the input lost.
C20_ResolutionsPreserved ==
    (cpc = "built" /\ variant \in {"part_001", "App1", "getVideoInfo"}) =>
        {catalog[k].resolution : k \in 1..Len(catalog)}
            = PositiveResolutions(variant, rawFormats)

-----------------------------------------------------------------------------
(***************************************************************************)
(* Further claims about the page (checked under SpecClient).               *)
(***************************************************************************)

\* the published catalog is empty or the one built from the response of
\* the handleFetch call that ran last, and the selection is null or one of
\* its descriptors
CatalogFromLastResponse ==
    /\ \/ availableQualities = <<>>
       \/ /\ data.kind = "ok"
          /\ availableQualities \in ClientCatalogs(cvariant, data.streams)
    /\ \/ selectedQuality = Null
       \/ \E k \in 1..Len(availableQualities) :
             selectedQuality = <<availableQualities[k]>>

\* a step that changes the published catalog is a step of handleFetch: its
\* start or the continuation that publishes the response
CatalogChangedOnlyByFetch ==
    \/ availableQualities' = availableQualities
    \/ HandleFetch
    \/ \E k \in 1..Len(pendingCalls) : pendingCalls' = Splice1(pendingCalls, k)

\* C15: the published catalog is replaced wholesale by each fetch: after
\* a handleFetch the catalog and the selection hold only descriptors of
\* that fetch's response (none if it failed), never entries of an earlier
\* fetch, and no operation other than handleFetch changes the catalog.
C15_CatalogReplacedWholesale ==
    /\ []((cvariant \in ClientVariants) => CatalogFromLastResponse)
    /\ [][(cvariant \in ClientVariants) => CatalogChangedOnlyByFetch]_vars

\* a fetch that failed after an earlier one had published a catalog from
\* which a download was started
C15_Witness ==
    /\ cvariant = "App1"
    /\ opened # <<>>
    /\ data.kind = "threw"
    /\ availableQualities = <<>>
    /\ selectedQuality = Null

-----------------------------------------------------------------------------
(***************************************************************************)
(* Two calls of one handler running concurrently: the Piped handler and    *)
(* onRequestPost of functions/api/info.js, and fetchVideoInfo of           *)
(* src/App.jsx.  The calls interleave at their awaits.  videoId, the loop  *)
(* position and lastError are declared inside the function, so each        *)
(* activation has its own; the endpoint list is a module-level const.      *)
(***************************************************************************)

Calls == {1, 2}

CallVariants == {"piped", "cobaltPost", "fetchVideoInfo"}

VideoIds == {"dQw4w9WgXcQ", "9bZkp7q19f0"}

\* how an attempt of these calls may fail
CallFailureKinds == {"timeout", "http"}

\* one activation for every call
Frame_Shared(c) == 1

\* the activation whose videoId, loop position and lastError call c uses
Frame(c) == c

NoLocals == [videoId |-> "none", i |-> 0, lastError |-> NoError]

CallsInit ==
    /\ hvariant \in CallVariants
    /\ calls \in {[c \in Calls |-> [pc |-> "new", videoId |-> a[c],
                                    received |-> <<>>, result |-> <<>>]] :
                     a \in [Calls -> VideoIds]}
    /\ locals = [f \in Calls |-> NoLocals]
    /\ CatalogIdle
    /\ FetchIdle
    /\ ResolverIdle
    /\ ClientIdle

\* the call is made: const videoId = .., let lastError = null, the loop
\* starts at the first endpoint
CallStarts(c) ==
    /\ calls[c].pc = "new"
    /\ locals' = [locals EXCEPT ![Frame(c)] =
                     [videoId |-> calls[c].videoId, i |-> 1, lastError |-> NoError]]
    /\ calls' = [calls EXCEPT ![c].pc = "loop"]
    /\ UNCHANGED hvariant
    /\ UNCHANGED <<catalogVars, fetchVars, resolverVars, clientVars>>

\* the attempt at the current endpoint ends in a failure: lastError is
\* assigned where the handler has one and the loop goes on
AttemptFails(c, kind) ==
    /\ calls[c].pc = "loop"
    /\ locals[Frame(c)].i <= Len(FallbackList(hvariant))
    /\ calls' = [calls EXCEPT ![c].received = Append(@, kind)]
    /\ locals' = [locals EXCEPT
                     ![Frame(c)].i = @ + 1,
                     ![Frame(c)].lastError =
                         IF RecordsLastError(hvariant)
                         THEN [endpoint |-> FallbackList(hvariant)[locals[Frame(c)].i],
                               kind |-> kind]
                         ELSE @]
    /\ UNCHANGED hvariant
    /\ UNCHANGED <<catalogVars, fetchVars, resolverVars, clientVars>>

\* the attempt at the current endpoint answers with a usable body for the
\* video asked for: the call returns it
AttemptSucceeds(c) ==
    /\ calls[c].pc = "loop"
    /\ locals[Frame(c)].i <= Len(FallbackList(hvariant))
    /\ calls' = [calls EXCEPT
                    ![c].received = Append(@, "success"),
                    ![c].pc = "done",
                    ![c].result =
                        <<[video |-> locals[Frame(c)].videoId,
                           response |->
                               Response(200, "success",
                                        FallbackList(hvariant)[locals[Frame(c)].i],
                                        NoError, <<>>)]>>]
    /\ UNCHANGED <<hvariant, locals>>
    /\ UNCHANGED <<catalogVars, fetchVars, resolverVars, clientVars>>

\* the loop is over: the exhausted answer, with lastError where the
\* handler reports it
CallExhausted(c) ==
    /\ calls[c].pc = "loop"
    /\ locals[Frame(c)].i > Len(FallbackList(hvariant))
    /\ calls' = [calls EXCEPT
                    ![c].pc = "done",
                    ![c].result =
                        <<[video |-> locals[Frame(c)].videoId,
                           response |->
                               ExhaustedResult(hvariant,
                                               locals[Frame(c)].lastError)]>>]
    /\ UNCHANGED <<hvariant, locals>>
    /\ UNCHANGED <<catalogVars, fetchVars, resolverVars, clientVars>>

CallStep(c) ==
    \/ CallStarts(c)
    \/ \E kind \in CallFailureKinds : AttemptFails(c, kind)
    \/ AttemptSucceeds(c)
    \/ CallExhausted(c)

CallsNext ==
    \/ \E c \in Calls : CallStarts(c)
    \/ \E c \in Calls : \E kind \in CallFailureKinds : AttemptFails(c, kind)
    \/ \E c \in Calls : AttemptSucceeds(c)
    \/ \E c \in Calls : CallExhausted(c)

SpecCalls == CallsInit /\ [][CallsNext]_vars

\* what a call of handler v returns for videoId when its own attempts
\* ended as in received, computed from these alone
ResultOf(v, id, received) ==
    LET n == Len(received)
        list == FallbackList(v)
    IN  IF n > 0 /\ received[n] = "success"
        THEN [video |-> id,
              response |-> Response(200, "success", list[n], NoError, <<>>)]
        ELSE [video |-> id,
              response |->
                  ExhaustedResult(v, IF n > 0 /\ RecordsLastError(v)
                                     THEN [endpoint |-> list[n], kind |-> received[n]]
                                     ELSE NoError)]

\* C16: two calls running concurrently neither block nor corrupt one
\* another: a call that has not returned can always take its next step,
\* whatever the other call is doing, and what a call returned is determined
\* by its own argument and the outcomes of its own attempts.
C16_CallsIndependent ==
    \A c \in Calls :
        /\ calls[c].pc # "done" => ENABLED CallStep(c)
        /\ calls[c].pc = "done" =>
              calls[c].result =
                  <<ResultOf(hvariant, calls[c].videoId, calls[c].received)>>

\* both calls have returned, for different videos, after attempts that
\* went differently and interleaved
C16_Witness ==
    /\ hvariant = "piped"
    /\ calls[1].pc = "done" /\ calls[2].pc = "done"
    /\ calls[1].videoId # calls[2].videoId
    /\ calls[1].received = <<"timeout", "http", "success">>
    /\ Len(calls[2].received) = Len(PIPED_INSTANCES)
    /\ calls[2].result[1].response.kind = "exhausted"

-----------------------------------------------------------------------------
(***************************************************************************)
(* The catalog builders on entries that carry a file size and a frame      *)
(* rate (contentLength / size / clen and fps in the upstream JSON): the    *)
(* same build steps as in SpecCatalog, from inputs in which these two      *)
(* fields vary.                                                            *)
(***************************************************************************)

\* (size, fps) of an entry: both missing, both present, only the size
SizeFpsValues ==
    {<<Absent, Absent>>, <<IntVal(52428800), IntVal(60)>>, <<IntVal(1024), Absent>>}

\* entries that pass the filters, with an integer resolution, and with
\* every (size, fps)
DisplayEntries(v) ==
    {[e EXCEPT !.size = d[1], !.fps = d[2]] :
        e \in {x \in RawEntries(v) :
                 /\ ResolutionField(v, x) \in {IntVal(1080), IntVal(720)}
                 /\ x.url /\ x.video},
        d \in SizeFpsValues}

DisplayInit ==
    /\ variant \in CatalogVariants
    /\ rawFormats \in SeqsUpTo(DisplayEntries(variant), MaxRaw)
    /\ catalog = <<>>
    /\ cpc = "input"
    /\ FetchIdle
    /\ ResolverIdle
    /\ ClientIdle
    /\ CallsIdle

SpecDisplay == DisplayInit /\ [][CatalogNext]_vars

\* the raw entries with size and fps removed
WithoutSizeFps(raw) ==
    [i \in 1..Len(raw) |-> [raw[i] EXCEPT !.size = Absent, !.fps = Absent]]

\* the input positions of the entries a catalog retains, in catalog order
Positions(c) == [k \in 1..Len(c) |-> c[k].src]

\* C18: file size and frame rate never influence ranking or retention: the
\* catalog built from a raw input retains the entries at the same input
\* positions, in the same order, as the catalog built from the input that
\* differs from it only in having no size and no fps.
C18_SizeFpsNeverRank ==
    cpc = "built" =>
        /\ {Positions(c) : c \in Catalogs(variant, rawFormats)}
              = {Positions(c) : c \in Catalogs(variant, WithoutSizeFps(rawFormats))}
        /\ Positions(catalog)
              \in {Positions(c) : c \in Catalogs(variant, WithoutSizeFps(rawFormats))}

\* a catalog built from two entries of one resolution and one audio
\* status, the second the larger file, and a third entry without size
C18_Witness ==
    /\ cpc = "built"
    /\ variant = "getVideoInfo"
    /\ Len(rawFormats) = 3
    /\ rawFormats[1].audio = rawFormats[2].audio
    /\ Denotes(variant, rawFormats[1]) = Denotes(variant, rawFormats[2])
    /\ rawFormats[1].size = IntVal(1024)
    /\ rawFormats[2].size = IntVal(52428800)
    /\ rawFormats[3].size = Absent
    /\ Len(catalog) = 2
    /\ catalog[2].src = 1

-----------------------------------------------------------------------------
(***************************************************************************)
(* Further claims about the fetch loop (checked under SpecFetch).          *)
(***************************************************************************)

\* the endpoint of the current attempt answered with a success status and
\* its body never finishes arriving
BodyNeverArrives ==
    /\ fpc = "awaitBody"
    /\ net = "stalled"
    /\ UsesTimer(fvariant, instanceIdx)

\* C19: the per-attempt timeout bounds the whole attempt, the reading of
\* the body included: while the body of an attempt has not arrived the
\* attempt's timer is still armed, so that the attempt is abandoned when
\* the timeout elapses and the loop moves to the next endpoint.
C19_TimeoutCoversBody ==
    BodyNeverArrives => instanceIdx \in timers

\* C21: the page issues one fetch at a time: with the submit button
\* enabled only while loading is false and "Try again" rendered only while
\* the error is non-empty, no two handleFetch calls are ever in flight, so
\* a call that completes never writes over the state of a newer call.
C21_OneFetchAtATime ==
    /\ Len(pendingCalls) <= 1
    /\ pendingCalls # <<>> => (loading /\ error = "")

\* a fetch in flight on a page that had published a result before, from
\* which a download was started
C21_Witness ==
    /\ Len(pendingCalls) = 1
    /\ loading
    /\ opened # <<>>
    /\ cvariant = "App1"

\* C22: in part_000, when every structured attempt of a download fails
\* (all Cobalt instances failed, the handler threw on the request body, or
\* the call to /api/download itself failed), handleDownload opens the
\* ssyoutube redirect URL in place of a media URL, opens exactly one URL
\* in all, and sets no error.
C22_FallsBackToRedirect ==
    [][(DownloadFallsBack \/ DownloadThrows)
          => /\ Len(opened') = 1
             /\ opened'[1].kind = "ssyoutube"
             /\ error' = error
             /\ ~downloading']_vars

\* a download that ended with the redirect URL of the video
C22_Witness ==
    /\ cvariant = "part_000"
    /\ videoInfo # Null
    /\ opened = <<SsyoutubeUrl(videoInfo[1].id)>>
    /\ pendingDownloads = <<>>
    /\ ~downloading
    /\ error = ""

\* C23: in every App the error and the published video info are mutually
\* exclusive: in no reachable state is the error message non-empty while
\* videoInfo is non-null, whatever fetches, selections and downloads ran.
C23_ErrorExcludesVideoInfo ==
    ~(error # "" /\ videoInfo # Null)

\* an error shown on a page that had published a video before, from which
\* a download was started
C23_Witness ==
    /\ error # ""
    /\ videoInfo = Null
    /\ opened # <<>>
    /\ ~loading

\* the selection is null or an entry of the published catalog, and a
\* video is published only with a non-empty catalog and a selection
SelectionWithinCatalog ==
    /\ \/ selectedQuality = Null
       \/ \E k \in 1..Len(availableQualities) :
             selectedQuality = <<availableQualities[k]>>
    /\ videoInfo # Null => (availableQualities # <<>> /\ selectedQuality # Null)

\* a handleFetch call ends in success in this step
FetchSucceeds ==
    /\ videoInfo = Null
    /\ videoInfo' # Null

\* the selection is the first entry of the catalog, of the highest
\* resolution in it
FirstAndHighestSelected ==
    /\ availableQualities' # <<>>
    /\ selectedQuality' = <<availableQualities'[1]>>
    /\ \A k \in 1..Len(availableQualities') :
          availableQualities'[k].resolution <= selectedQuality'[1].resolution

\* C24: in the Apps that build a catalog, the selected quality is always
\* null or a member of the published catalog, video info is non-null only
\* with a non-empty catalog and a selection, and right after a successful
\* fetch the selection is the first catalog entry, the highest resolution.
C24_SelectionInCatalog ==
    /\ []((cvariant \in ClientVariants) => SelectionWithinCatalog)
    /\ [][((cvariant \in ClientVariants) /\ FetchSucceeds)
             => FirstAndHighestSelected]_vars

\* the user has moved the selection from the first entry to the second
C24_Witness ==
    /\ cvariant \in ClientVariants
    /\ videoInfo # Null
    /\ Len(availableQualities) = 2
    /\ selectedQuality = <<availableQualities[2]>>

\* C25: loading is true exactly while a handleFetch call is in flight: it
\* becomes true when a fetch with a non-empty URL starts and is false after
\* every way the call can end, so that, when the network call returns,
\* loading becomes false again and the submit button is enabled.
C25_LoadingWhileInFlight ==
    /\ [](loading <=> pendingCalls # <<>>)
    /\ loading ~> (~loading /\ SubmitEnabled)

\* a fetch that ended with an upstream error, loading false again
C25_Witness ==
    /\ data.kind = "threw"
    /\ error # ""
    /\ ~loading
    /\ pendingCalls = <<>>

\* the attempts of the Invidious+Cobalt handler that have ended, up to
\* position n, all ended in a failure
FailedUpTo(n) ==
    /\ Len(outcomes) >= n
    /\ \A j \in 1..n : outcomes[j] \in FailureKinds

\* C26: in the Invidious+Cobalt /api/info handler the providers are tried
\* in a fixed order: Cobalt is contacted only after every Invidious
\* instance has failed, oEmbed only after Cobalt has succeeded, a failed
\* oEmbed call does not fail the request, and the 502 answer is returned
\* if and only if all Invidious instances and Cobalt have failed.
C26_ProvidersInOrder ==
    fvariant = "invidious" =>
        /\ \A k \in 1..Len(attempts) :
              /\ attempts[k] = YTDLP_COBALT_URL
                    => (k = CobaltIdx /\ FailedUpTo(Len(INVIDIOUS_INSTANCES)))
              /\ attempts[k] = OEMBED_URL
                    => /\ k = OEmbedIdx
                       /\ attempts[k - 1] = YTDLP_COBALT_URL
                       /\ outcomes[k - 1] = "success"
        /\ (fpc = "done" /\ Len(outcomes) = OEmbedIdx)
              => (result.status = 200 /\ result.kind = "success")
        /\ (fpc = "done" /\ request = "ok")
              => (result.status = 502 <=> FailedUpTo(CobaltIdx))

\* Cobalt answered after every Invidious instance had failed, the oEmbed
\* call failed, and the request was answered with success
C26_Witness ==
    /\ fvariant = "invidious"
    /\ fpc = "done"
    /\ Len(outcomes) = OEmbedIdx
    /\ outcomes[OEmbedIdx] \in FailureKinds
    /\ outcomes[CobaltIdx] = "success"
    /\ result.status = 200

\* C27: in every server handler a request without a video id is rejected
\* with a 400 answer before any upstream endpoint is contacted: no attempt
\* is made for such a request.
C27_NoVideoIdRejectedFirst ==
    request = "noVideoId" =>
        /\ attempts = <<>>
        /\ inFlight = {}
        /\ timers = {}
        /\ fpc \in {"entry", "done"}
        /\ fpc = "done" => (result.status = 400 /\ result.kind = "badRequest")

\* the POST handler has answered a request without a video id
C27_Witness ==
    /\ fvariant = "cobaltPost"
    /\ request = "noVideoId"
    /\ fpc = "done"
    /\ result.status = 400

\* the media URL of a formats entry is there: the url field of a picker
\* entry, cobaltResult.url for the single Cobalt entry, s.url of the raw
\* entry an Invidious descriptor was made from
HasMediaUrl(f) ==
    IF "url" \in DOMAIN f THEN f.url
    ELSE IF f.src = 0 THEN cobaltResult = "url"
    ELSE rawFormats[f.src].url

\* f has a media URL, a positive integer resolution and a boolean audio
\* flag
WellFormedDescriptor(f) ==
    /\ HasMediaUrl(f)
    /\ "resolution" \in DOMAIN f
    /\ f.resolution \in Nat \ {0}
    /\ "hasAudio" \in DOMAIN f
    /\ f.hasAudio \in BOOLEAN

\* C28: every entry of the formats list of a success answer of the
\* Invidious+Cobalt /api/info handler is a well-formed descriptor: a
\* non-empty media URL, a positive integer resolution and a boolean audio
\* flag, whichever provider produced it (Invidious, Cobalt with a single
\* URL, Cobalt with a picker).
C28_FormatsWellFormed ==
    (fvariant = "invidious" /\ fpc = "done" /\ result.kind = "success") =>
        \A k \in 1..Len(result.formats) : WellFormedDescriptor(result.formats[k])

\* C29: handleFetch submitted with an empty URL is a no-op: it issues no
\* network request and leaves loading, the error, the video info, the
\* catalog and the selection as they were, so that a result or an error
\* published before stays.
C29_EmptyUrlNoOp ==
    [][(HandleFetch /\ url = <<>>)
          => UNCHANGED <<loading, error, videoInfo, availableQualities,
                         selectedQuality, pendingCalls>>]_vars

\* the input box was emptied under a published result, and the submit
\* button is enabled
C29_Witness ==
    /\ url = <<>>
    /\ videoInfo # Null
    /\ selectedQuality # Null
    /\ SubmitEnabled
    /\ ENABLED HandleFetch

\* C30: in the loops that arm a timeout timer, the timer of an attempt is
\* cancelled when the attempt ends, however it ends: the only timer that
\* can be armed is the one of the attempt awaiting its fetch, and none is
\* armed once the call has returned.
C30_TimersCancelled ==
    timers \subseteq (IF fpc = "awaitFetch" THEN {instanceIdx} ELSE {})

====
